---- MODULE Spec2Model ----
(***************************************************************************)
(* A model of ff_bookmarks.py: the conversion of a Firefox bookmark backup *)
(* (.jsonlz4 or .json) into a Netscape bookmark HTML file.                 *)
(*                                                                         *)
(* JSON values are tagged records [t |-> kind, v |-> payload]:             *)
(*   null, bool, int (arbitrary precision, decimal digits), str (a         *)
(*   sequence of one-character strings), list (a sequence of values),      *)
(*   dict (a function from key strings to values; a key that is not in     *)
(*   its DOMAIN is an absent key).                                         *)
(* Python's None and JSON's null are the same value, JNull.                *)
(***************************************************************************)
EXTENDS Integers, Sequences, FiniteSets, TLC

VARIABLES pc, file, compressed_data, bookmark_data, output, outOpened,
          stdout, stderr, exitCode

vars == <<pc, file, compressed_data, bookmark_data, output, outOpened,
          stdout, stderr, exitCode>>

(***************************************************************************)
(* Program constants.                                                      *)
(***************************************************************************)
FIREFOX_LZ4_SIGNATURE == <<"m", "o", "z", "L", "z", "4">>

FIREFOX_LZ4_HEADER_SIZE == 12

INDENT_SIZE == 4

BOOKMARK_SEPARATOR_TYPE == 3

MICROSECONDS == 1000000

\* 'Bookmarks Menu'
DEFAULT_TITLE == <<"B", "o", "o", "k", "m", "a", "r", "k", "s", " ", "M", "e", "n", "u">>

\* 'bookmarkProperties/description'
DESCRIPTION_KEY ==
    <<"b", "o", "o", "k", "m", "a", "r", "k", "P", "r", "o", "p", "e", "r", "t", "i", "e", "s",
      "/", "d", "e", "s", "c", "r", "i", "p", "t", "i", "o", "n">>

(***************************************************************************)
(* JSON / Python values.                                                   *)
(***************************************************************************)
JNull == [t |-> "null"]

JBool(b) == [t |-> "bool", v |-> <<b>>]

JStr(s) == [t |-> "str", v |-> s]

JList(s) == [t |-> "list", v |-> s]

JDict(d) == [t |-> "dict", v |-> d]

\* An integer of any size: sign and decimal digits, most significant first,
\* without leading zeros (zero is <<0>>, never negative).
JInt(neg, digits) == [t |-> "int", neg |-> neg, v |-> digits]

\* The element of a one-element set.  The({F(x) : x \in {e}}) is F of the
\* value of e: e is evaluated once and x names its value.
The(S) == CHOOSE r \in S : TRUE

\* dict.get(key, default)
Get(d, key, default) ==
    IF key \in DOMAIN d.v THEN d.v[key] ELSE default

IsDict(x) == x.t = "dict"

IsList(x) == x.t = "list"

\* Python truth value of a JSON value: None, False, 0, "", [] and {} are falsy.
Truthy(x) ==
    CASE x.t = "null" -> FALSE
      [] x.t = "bool" -> x.v[1]
      [] x.t = "int"  -> x.v # <<0>>
      [] x.t = "str"  -> x.v # <<>>
      [] x.t = "list" -> x.v # <<>>
      [] x.t = "dict" -> DOMAIN x.v # {}

(***************************************************************************)
(* str.replace(old, new) for a one-character old: every occurrence, left   *)
(* to right.                                                               *)
(***************************************************************************)
RECURSIVE Replace(_, _, _)
Replace(s, old, new) ==
    IF s = <<>> THEN <<>>
    ELSE (IF Head(s) = old THEN new ELSE <<Head(s)>>) \o Replace(Tail(s), old, new)

AMP == <<"&", "a", "m", "p", ";">>

LT == <<"&", "l", "t", ";">>

GT == <<"&", "g", "t", ";">>

QUOT == <<"&", "q", "u", "o", "t", ";">>

APOS == <<"&", "#", "x", "2", "7", ";">>

\* A mutation of html_escape: the ampersand pass runs last.
html_escape_amp_last(text) ==
    IF ~Truthy(text) THEN <<>>
    ELSE Replace(Replace(Replace(Replace(Replace(text.v,
             "<", LT), ">", GT), "\"", QUOT), "'", APOS), "&", AMP)

\* html_escape(text): text is a str or None; the result is a character sequence.
html_escape(text) ==
    IF ~Truthy(text) THEN <<>>
    ELSE Replace(Replace(Replace(Replace(Replace(text.v,
             "&", AMP), "<", LT), ">", GT), "\"", QUOT), "'", APOS)

(***************************************************************************)
(* Arbitrary-precision naturals as decimal digit sequences, most           *)
(* significant digit first (Python's int has no width).                    *)
(***************************************************************************)
RECURSIVE Norm(_)
Norm(ds) ==
    IF Len(ds) > 1 /\ Head(ds) = 0 THEN Norm(Tail(ds)) ELSE ds

RECURSIVE Rev(_)
Rev(s) ==
    IF s = <<>> THEN <<>> ELSE Append(Rev(Tail(s)), Head(s))

\* le: least significant digit first; the result is le * c + carry.
RECURSIVE MulLE(_, _, _)
MulLE(le, c, carry) ==
    IF le = <<>>
    THEN (IF carry = 0 THEN <<>> ELSE <<carry % 10>> \o MulLE(<<>>, c, carry \div 10))
    ELSE LET p == Head(le) * c + carry
         IN  <<p % 10>> \o MulLE(Tail(le), c, p \div 10)

MulSmall(ds, c) == Norm(Rev(MulLE(Rev(ds), c, 0)))

AddOne(ds) == Norm(Rev(MulLE(Rev(ds), 1, 1)))

\* Long division of ds by the small divisor c: [q |-> quotient, r |-> remainder].
RECURSIVE DivBE(_, _, _, _)
DivBE(ds, c, rem, acc) ==
    IF ds = <<>> THEN [q |-> Norm(acc), r |-> rem]
    ELSE LET cur == rem * 10 + Head(ds)
         IN  DivBE(Tail(ds), c, cur % c, Append(acc, cur \div c))

DivModSmall(ds, c) == DivBE(ds, c, 0, <<0>>)

RECURSIVE LexLess(_, _)
LexLess(a, b) ==
    IF a = <<>> THEN FALSE
    ELSE IF Head(a) # Head(b) THEN Head(a) < Head(b)
    ELSE LexLess(Tail(a), Tail(b))

\* a < b for normalised a and b
Less(a, b) ==
    IF Len(a) # Len(b) THEN Len(a) < Len(b) ELSE LexLess(a, b)

IsOdd(ds) == ds[Len(ds)] % 2 = 1

RECURSIVE NatDigits(_)
NatDigits(n) ==
    IF n < 10 THEN <<n>> ELSE Append(NatDigits(n \div 10), n % 10)

RECURSIVE TimesPow2(_, _)
TimesPow2(ds, k) ==
    IF k = 0 \/ ds = <<>> THEN ds
    ELSE IF k >= 10 THEN The({ TimesPow2(m, k - 10) : m \in {MulSmall(ds, 1024)} })
    ELSE The({ TimesPow2(m, k - 1) : m \in {MulSmall(ds, 2)} })

(***************************************************************************)
(* int(timestamp) / 1000000 is Python's true division: the IEEE-754 double *)
(* nearest to the exact quotient (ties to even), 53 significant bits.      *)
(* For 0 < n < 2^53 * 10^6 (every 64-bit value is in that range) the       *)
(* double is m / 2^k with 2^52 <= m <= 2^53 and k >= 0.                    *)
(***************************************************************************)
MANTISSA_BITS == 53

\* 2^52 * 10^6: the least scaled numerator whose quotient has 53 bits
ScaleFloor == TimesPow2(NatDigits(MICROSECONDS), MANTISSA_BITS - 1)

\* double n until n >= 2^52 * 10^6: [n |-> n * 2^k, k |-> k]
\* (ten doublings in one step while that stays below the bound)
RECURSIVE Scale(_, _)
Scale(n, k) ==
    IF Less(n, ScaleFloor)
    THEN The({ IF Less(m.ten, ScaleFloor) THEN Scale(m.ten, k + 10) ELSE Scale(m.one, k + 1) :
                 m \in {[ten |-> MulSmall(n, 1024), one |-> MulSmall(n, 2)]} })
    ELSE [n |-> n, k |-> k]

\* m / 2^k: [q |-> floor, exact |-> no bit was dropped]
RECURSIVE HalveTimes(_, _, _)
HalveTimes(m, k, exact) ==
    IF k = 0 THEN [q |-> m, exact |-> exact]
    ELSE IF k >= 10
    THEN The({ HalveTimes(h.q, k - 10, exact /\ h.r = 0) : h \in {DivModSmall(m, 1024)} })
    ELSE The({ HalveTimes(h.q, k - 1, exact /\ h.r = 0) : h \in {DivModSmall(m, 2)} })

\* qr = [q, r] is the quotient and remainder of a division by 1000000: the
\* quotient rounded to nearest, ties to even
RoundNearestEven(qr) ==
    IF \/ 2 * qr.r > MICROSECONDS
       \/ 2 * qr.r = MICROSECONDS /\ IsOdd(qr.q)
    THEN AddOne(qr.q) ELSE qr.q

\* The double nearest to mag / 1000000, as the pair of its floor and whether
\* it is a whole number (mag >= 1).
TrueDivide(mag) ==
    The({ The({ HalveTimes(RoundNearestEven(qr), s.k, TRUE) :
                  qr \in {DivModSmall(s.n, MICROSECONDS)} }) :
            s \in {Scale(mag, 0)} })

\* int(math.floor(n / 1000000)) for the int n = [neg, v]
FloorOfQuotient(n) ==
    IF n.v = <<0>> THEN [neg |-> FALSE, v |-> <<0>>]
    ELSE The({ IF ~n.neg THEN [neg |-> FALSE, v |-> f.q]
               ELSE IF f.exact THEN [neg |-> f.q # <<0>>, v |-> f.q]
               ELSE [neg |-> TRUE, v |-> AddOne(f.q)] :
                 f \in {TrueDivide(n.v)} })

DigitChars == <<"0", "1", "2", "3", "4", "5", "6", "7", "8", "9">>

IsDigitChar(c) == \E i \in 1..10 : DigitChars[i] = c

DigitOf(c) == CHOOSE d \in 0..9 : DigitChars[d + 1] = c

\* str(n) for an int
StrOfInt(n) ==
    (IF n.neg THEN <<"-">> ELSE <<>>) \o [i \in 1..Len(n.v) |-> DigitChars[n.v[i] + 1]]

\* int(x): [ok |-> FALSE] stands for ValueError / TypeError.
\* A str converts when it is an optional "-" and one or more decimal digits.
IntOf(x) ==
    CASE x.t = "int"  -> [ok |-> TRUE, neg |-> x.neg, v |-> x.v]
      [] x.t = "bool" -> [ok |-> TRUE, neg |-> FALSE, v |-> IF x.v[1] THEN <<1>> ELSE <<0>>]
      [] x.t = "str"  ->
            LET neg  == x.v # <<>> /\ Head(x.v) = "-"
                body == IF neg THEN Tail(x.v) ELSE x.v
            IN  IF body # <<>> /\ \A i \in 1..Len(body) : IsDigitChar(body[i])
                THEN The({ [ok |-> TRUE, neg |-> neg /\ ds # <<0>>, v |-> ds] :
                             ds \in {Norm([i \in 1..Len(body) |-> DigitOf(body[i])])} })
                ELSE [ok |-> FALSE]
      [] OTHER -> [ok |-> FALSE]

\* convert_firefox_timestamp(timestamp): the characters of the Unix time,
\* or the empty string.
convert_firefox_timestamp(timestamp) ==
    IF Truthy(timestamp)
    THEN The({ IF n.ok THEN StrOfInt(FloorOfQuotient(n)) ELSE <<>> : n \in {IntOf(timestamp)} })
    ELSE <<>>

(***************************************************************************)
(* Output text.  A line of the output file is [indent |-> number of        *)
(* leading spaces, text |-> pieces], the pieces in order being the line:   *)
(* Lit(s) is text of the program's own templates, Txt(cs) the characters   *)
(* of an interpolated value.                                               *)
(***************************************************************************)
Lit(s) == [lit |-> s]

Txt(cs) == [txt |-> cs]

\* One attribute of format_date_attributes: the test for the key, the
\* conversion, and the attribute when the conversion gave a non-empty string.
date_attribute(data, key, opening) ==
    IF key \in DOMAIN data.v
    THEN The({ IF converted # <<>> THEN <<Lit(opening), Txt(converted), Lit("\"")>> ELSE <<>> :
                 converted \in {convert_firefox_timestamp(data.v[key])} })
    ELSE <<>>

\* format_date_attributes(data): the pieces of the date attributes
format_date_attributes(data) ==
    date_attribute(data, "dateAdded", " ADD_DATE=\"")
    \o date_attribute(data, "lastModified", " LAST_MODIFIED=\"")

\* write_indented(output, indent, text): text is the sequence of the lines of
\* the text (it is split at its line breaks); the indentation goes before the
\* first of them, and the write ends the last one.
write_indented(out, indent, text) ==
    out \o [i \in 1..Len(text) |->
              [indent |-> IF i = 1 THEN INDENT_SIZE * indent ELSE 0, text |-> text[i]]]

\* write_html_header(output, title)
write_html_header(out, title) ==
    write_indented(out, 0,
        << <<Lit("<!DOCTYPE NETSCAPE-Bookmark-file-1>")>>,
           <<Lit("<!-- This is an automatically generated file.")>>,
           <<Lit("    It will be read and overwritten.")>>,
           <<Lit("    DO NOT EDIT! -->")>>,
           <<Lit("<META HTTP-EQUIV=\"Content-Type\" CONTENT=\"text/html; charset=UTF-8\">")>>,
           <<Lit("<TITLE>Bookmarks</TITLE>")>>,
           <<Lit("<H1>"), Txt(html_escape(title)), Lit("</H1>")>>,
           <<Lit("<DL><p>")>> >>)

\* A mutation of write_folder: the opening list tag is indented one level deeper.
write_folder_deeper_list(out, data, indent) ==
    write_indented(
        write_indented(out, indent,
            << <<Lit("<DT><H3")>> \o format_date_attributes(data)
               \o <<Lit(">"), Txt(html_escape(Get(data, "title", JStr(<<>>)))), Lit("</H3>")>> >>),
        indent + 1, << <<Lit("<DL><p>")>> >>)

\* write_folder(output, data, indent)
write_folder(out, data, indent) ==
    LET title      == html_escape(Get(data, "title", JStr(<<>>)))
        date_attrs == format_date_attributes(data)
        heading    == <<Lit("<DT><H3")>> \o date_attrs \o <<Lit(">"), Txt(title), Lit("</H3>")>>
    IN  write_indented(write_indented(out, indent, <<heading>>), indent, << <<Lit("<DL><p>")>> >>)

RECURSIVE write_descriptions(_, _, _, _)

\* A mutation of write_descriptions: the loop ends at the first description.
write_descriptions_first_only(out, annos, i, indent) ==
    IF i > Len(annos) THEN out
    ELSE IF IsDict(annos[i]) /\ Get(annos[i], "name", JNull) = JStr(DESCRIPTION_KEY)
    THEN write_indented(out, indent,
             << <<Lit("<DD>"), Txt(html_escape(Get(annos[i], "value", JStr(<<>>))))>> >>)
    ELSE write_descriptions(out, annos, i + 1, indent)

\* the loop over annos of write_bookmark, from entry i on
write_descriptions(out, annos, i, indent) ==
    IF i > Len(annos) THEN out
    ELSE write_descriptions(
             IF IsDict(annos[i]) /\ Get(annos[i], "name", JNull) = JStr(DESCRIPTION_KEY)
             THEN write_indented(out, indent,
                      << <<Lit("<DD>"), Txt(html_escape(Get(annos[i], "value", JStr(<<>>))))>> >>)
             ELSE out,
             annos, i + 1, indent)

\* write_bookmark(output, data, indent)
write_bookmark(out, data, indent) ==
    LET uri        == Get(data, "uri", JStr(<<>>))
        title      == html_escape(Get(data, "title", uri))
        date_attrs == format_date_attributes(data)
        anchor     == <<Lit("<DT><A HREF=\""), Txt(html_escape(uri)), Lit("\"")>>
                      \o date_attrs \o <<Lit(">"), Txt(title), Lit("</A>")>>
        annos      == Get(data, "annos", JNull)
    IN  The({ IF IsList(annos) THEN write_descriptions(written, annos.v, 1, indent) ELSE written :
                written \in {write_indented(out, indent, <<anchor>>)} })

\* A mutation of IsSeparator: no child is taken for a separator.
IsSeparatorNever(child) == FALSE

\* child.get('typeCode') == BOOKMARK_SEPARATOR_TYPE, for a dict child
IsSeparator(child) ==
    Get(child, "typeCode", JNull) = JInt(FALSE, NatDigits(BOOKMARK_SEPARATOR_TYPE))

(***************************************************************************)
(* convert_bookmarks_to_html(output, data, indent).  The result is          *)
(* [out |-> the output written so far, raised |-> an AttributeError left    *)
(* the call]: .get on a value that is no dict raises, and what was written  *)
(* before stays written.                                                   *)
(***************************************************************************)
RECURSIVE convert_bookmarks_to_html(_, _, _)
RECURSIVE convert_children(_, _, _, _)

\* A mutation of convert_children: the children are visited last to first.
convert_children_backwards(out, children, i, indent) ==
    IF i > Len(children) THEN [out |-> out, raised |-> FALSE]
    ELSE IF ~IsDict(children[Len(children) + 1 - i]) THEN [out |-> out, raised |-> TRUE]
    ELSE The({ IF r.raised THEN r ELSE convert_children(r.out, children, i + 1, indent) :
                 r \in { IF IsSeparator(children[Len(children) + 1 - i])
                         THEN [out |-> out, raised |-> FALSE]
                         ELSE convert_bookmarks_to_html(out, children[Len(children) + 1 - i],
                                                        indent + 1) } })

\* the loop over children, from child i on
convert_children(out, children, i, indent) ==
    IF i > Len(children) THEN [out |-> out, raised |-> FALSE]
    ELSE IF ~IsDict(children[i]) THEN [out |-> out, raised |-> TRUE]
    ELSE The({ IF r.raised THEN r ELSE convert_children(r.out, children, i + 1, indent) :
                 r \in { IF IsSeparator(children[i]) THEN [out |-> out, raised |-> FALSE]
                         ELSE convert_bookmarks_to_html(out, children[i], indent + 1) } })

convert_bookmarks_to_html(out, data, indent) ==
    IF ~IsDict(data) THEN [out |-> out, raised |-> TRUE]
    ELSE LET children == Get(data, "children", JNull)
             uri      == Get(data, "uri", JNull)
         IN  IF children # JNull /\ IsList(children)
             THEN The({ IF r.raised THEN r
                        ELSE [out    |-> write_indented(r.out, indent, << <<Lit("</DL><p>")>> >>),
                              raised |-> FALSE] :
                          r \in { convert_children(
                                      IF indent = 0
                                      THEN write_html_header(out, Get(data, "title", JStr(DEFAULT_TITLE)))
                                      ELSE write_folder(out, data, indent),
                                      children.v, 1, indent) } })
             ELSE IF uri # JNull
             THEN [out |-> write_bookmark(out, data, indent), raised |-> FALSE]
             ELSE [out |-> out, raised |-> FALSE]

(***************************************************************************)
(* Sample documents.  Str is a str of the given characters.                *)
(***************************************************************************)
Folder(title, children) == JDict([title |-> JStr(title), children |-> JList(children)])

Bookmark(title, uri) == JDict([title |-> JStr(title), uri |-> JStr(uri)])

Separator == JDict([typeCode |-> JInt(FALSE, NatDigits(BOOKMARK_SEPARATOR_TYPE))])

Description(value) == JDict([name |-> JStr(DESCRIPTION_KEY), value |-> JStr(value)])

\* {"title": "Bookmarks Menu", "children": []}
DocEmptyMenu == Folder(DEFAULT_TITLE, <<>>)

\* one bookmark under the root
DocOneBookmark == Folder(<<"r">>, <<Bookmark(<<"E", "x">>, <<"h", ":", "e">>)>>)

\* a folder holding an annotated bookmark, a separator and another bookmark
DocAnnotated ==
    Folder(<<"r">>,
        <<Folder(<<"f">>,
            << JDict([title |-> JStr(<<"a">>), uri |-> JStr(<<"u", "1">>),
                      annos |-> JList(<<Description(<<"x", "<", "y">>)>>)]),
               Separator,
               Bookmark(<<"b">>, <<"u", "2">>) >>)>>)

\* a document whose root is a list, and one with a child that is a string
DocRootList == JList(<<Bookmark(<<"a">>, <<"u">>)>>)

DocBadChild == Folder(<<"r">>, <<Bookmark(<<"a">>, <<"u">>), JStr(<<"s">>)>>)

(***************************************************************************)
(* Files.  A byte is a string.  The block-decompression primitive and the  *)
(* JSON parser are library calls: a compressed stream is the block marker  *)
(* "Z" followed by its payload, and a JSON text is one byte that names the *)
(* document it parses to.  "#FF" is a byte no UTF-8 text holds.            *)
(***************************************************************************)
Documents ==
    [D1 |-> DocEmptyMenu, D2 |-> DocOneBookmark, D3 |-> DocAnnotated,
     DL |-> DocRootList, DC |-> DocBadChild]

\* lz4.block.decompress(data, uncompressed_size=...): LZ4BlockError or the payload
Lz4Decompress(data) ==
    IF data # <<>> /\ Head(data) = "Z"
    THEN [ok |-> TRUE, data |-> Tail(data)]
    ELSE [ok |-> FALSE]

\* bytes.decode('utf-8'): UnicodeDecodeError or the text
Utf8Decode(bytes) ==
    IF \E i \in 1..Len(bytes) : bytes[i] = "#FF" THEN [ok |-> FALSE]
    ELSE [ok |-> TRUE, text |-> bytes]

\* json.loads(text): JSONDecodeError or the value
JsonLoads(text) ==
    IF Len(text) = 1 /\ text[1] \in DOMAIN Documents
    THEN [ok |-> TRUE, value |-> Documents[text[1]]]
    ELSE [ok |-> FALSE]

\* the content of the input file: signature, header and body, in this order
FileBytes(f) == f.sig \o f.hdr \o f.body

\* inf.read(n) at the start of the file
ReadFirst(bytes, n) == SubSeq(bytes, 1, IF Len(bytes) < n THEN Len(bytes) ELSE n)

\* inFile.seek(offset); inFile.read()
ReadFrom(bytes, offset) == SubSeq(bytes, offset + 1, Len(bytes))

\* pathlib.Path(filename).is_file()
is_file(f) == f.exists

\* is_valid_jsonlz4_file(filename)
is_valid_jsonlz4_file(f) ==
    IF ~is_file(f) THEN FALSE
    ELSE IF ~f.readable THEN FALSE
    ELSE ReadFirst(FileBytes(f), Len(FIREFOX_LZ4_SIGNATURE)) = FIREFOX_LZ4_SIGNATURE

\* is_json_file(filename): "true", "false", or "raise" when the file is not
\* UTF-8 (UnicodeDecodeError is neither JSONDecodeError nor OSError)
is_json_file(f) ==
    IF ~is_file(f) THEN "false"
    ELSE IF ~f.readable THEN "false"
    ELSE The({ IF ~text.ok THEN "raise"
               ELSE IF JsonLoads(text.text).ok THEN "true" ELSE "false" :
                 text \in {Utf8Decode(FileBytes(f))} })

(***************************************************************************)
(* main().  pc is the place in main: start, detect, decompress, load_json, *)
(* convert, render, exited.  stdout and stderr are the lines printed;      *)
(* exitCode is <<>> while the process runs and <<status>> once it exited.  *)
(* output is the content of the output file (a sequence of lines) and      *)
(* outOpened whether main opened (created or truncated) it.                *)
(***************************************************************************)
\* A mutation of err: the message is written and the caller goes on, a load
\* that failed leaving no tree.
errReturns(message) ==
    /\ stderr' = Append(stderr, message)
    /\ exitCode' = IF pc \in {"convert", "render"} THEN <<1>> ELSE exitCode
    /\ pc' = IF pc \in {"convert", "render"} THEN "exited" ELSE "convert"

\* A mutation of err: the exit is caught by main's handler, which reports again.
errCaught(message) ==
    /\ stderr' = stderr \o <<message, "Conversion failed">>
    /\ exitCode' = <<1>>
    /\ pc' = "exited"

\* err(message): one line on the error stream, then sys.exit(1).  SystemExit
\* is no Exception, so main's handler does not see it.
err(message) ==
    /\ stderr' = Append(stderr, message)
    /\ exitCode' = <<1>>
    /\ pc' = "exited"

\* main, lines 313-322: the input file must exist
CheckInput ==
    /\ pc = "start"
    /\ IF ~is_file(file)
       THEN err("Input file does not exist")
       ELSE pc' = "detect" /\ UNCHANGED <<stderr, exitCode>>
    /\ UNCHANGED <<file, compressed_data, bookmark_data, output, outOpened, stdout>>

\* main, lines 326-334: the format of the input
DetectFormat ==
    /\ pc = "detect"
    /\ IF is_valid_jsonlz4_file(file)
       THEN /\ stdout' = Append(stdout, "Processing Firefox jsonlz4 bookmark backup")
            /\ pc' = "decompress"
            /\ UNCHANGED <<stderr, exitCode>>
       ELSE \E is_json \in {is_json_file(file)} :
              CASE is_json = "true" ->
                   /\ stdout' = Append(stdout, "Processing JSON bookmark file")
                   /\ pc' = "load_json"
                   /\ UNCHANGED <<stderr, exitCode>>
                [] is_json = "false" ->
                   /\ err("not a valid Firefox bookmark backup file or JSON file")
                   /\ UNCHANGED stdout
                [] OTHER ->
                   /\ err("Conversion failed")
                   /\ UNCHANGED stdout
    /\ UNCHANGED <<file, compressed_data, bookmark_data, output, outOpened>>

\* decompress_jsonlz4(filename), called at line 329, from the read on:
\* plain is what the decompression gave
decompress_parse(plain) ==
    IF ~plain.ok
    THEN err("LZ4 decompression error") /\ UNCHANGED bookmark_data
    ELSE \E text \in {Utf8Decode(plain.data)} :
           IF ~text.ok
           THEN err("Conversion failed") /\ UNCHANGED bookmark_data
           ELSE \E parsed \in {JsonLoads(text.text)} :
                  IF ~parsed.ok
                  THEN err("JSON parsing error") /\ UNCHANGED bookmark_data
                  ELSE /\ bookmark_data' = parsed.value
                       /\ pc' = "convert"
                       /\ UNCHANGED <<stderr, exitCode>>

\* A mutation of FIREFOX_LZ4_HEADER_SIZE: the header size counted after the signature.
HEADER_SIZE_AFTER_SIGNATURE == Len(FIREFOX_LZ4_SIGNATURE) + FIREFOX_LZ4_HEADER_SIZE

\* the offset decompress_jsonlz4 seeks to
SeekOffset == FIREFOX_LZ4_HEADER_SIZE

\* decompress_jsonlz4(filename), called at line 329
decompress_jsonlz4 ==
    /\ pc = "decompress"
    /\ IF ~file.readable
       THEN /\ err("File reading error")
            /\ UNCHANGED <<compressed_data, bookmark_data>>
       ELSE /\ compressed_data' = ReadFrom(FileBytes(file), SeekOffset)
            /\ decompress_parse(Lz4Decompress(compressed_data'))
    /\ UNCHANGED <<file, output, outOpened, stdout>>

\* load_json_file(filename), called at line 332
load_json_file ==
    /\ pc = "load_json"
    /\ \E text \in {Utf8Decode(FileBytes(file))} :
         \E parsed \in {IF text.ok THEN JsonLoads(text.text) ELSE [ok |-> FALSE]} :
           IF file.readable /\ parsed.ok
           THEN /\ bookmark_data' = parsed.value
                /\ pc' = "convert"
                /\ UNCHANGED <<stderr, exitCode>>
           ELSE err("Error loading JSON file") /\ UNCHANGED bookmark_data
    /\ UNCHANGED <<file, compressed_data, output, outOpened, stdout>>

\* main, lines 337-338: the output file is opened for writing
OpenOutput ==
    /\ pc = "convert"
    /\ stdout' = Append(stdout, "Converting bookmarks to HTML format...")
    /\ IF file.out_writable
       THEN /\ outOpened' = TRUE
            /\ output' = <<>>
            /\ pc' = "render"
            /\ UNCHANGED <<stderr, exitCode>>
       ELSE /\ err("Conversion failed")
            /\ UNCHANGED <<outOpened, output>>
    /\ UNCHANGED <<file, compressed_data, bookmark_data>>

\* main, lines 339-344: the tree is rendered into the output file
Convert ==
    /\ pc = "render"
    /\ \E r \in {convert_bookmarks_to_html(output, bookmark_data, 0)} :
           /\ output' = r.out
           /\ IF r.raised
              THEN err("Conversion failed") /\ UNCHANGED stdout
              ELSE /\ stdout' = Append(stdout, "Successfully converted bookmarks")
                   /\ exitCode' = <<0>>
                   /\ pc' = "exited"
                   /\ UNCHANGED stderr
    /\ UNCHANGED <<file, compressed_data, bookmark_data, outOpened>>

(***************************************************************************)
(* Input files: present or not, readable or not, with the output path      *)
(* writable or not; a backup (signature, header, compressed stream) or a   *)
(* plain file.  A backup's header is the 6 bytes that real backups have    *)
(* after "mozLz4" (the rest of the magic and the 32-bit size), or 12 bytes.*)
(***************************************************************************)
Header6 == <<"0", "nul", "s1", "s2", "s3", "s4">>

Header12 == Header6 \o <<"h7", "h8", "h9", "h10", "h11", "h12">>

Streams ==
    { <<"Z", "D1">>, <<"Z", "D2">>, <<"Z", "D3">>, <<"Z", "DL">>, <<"Z", "DC">>,
      <<"Z", "x">>, <<"Z", "#FF">>, <<"x", "D1">>, <<>> }

PlainBodies == { <<"D1">>, <<"D2">>, <<"D3">>, <<"DL">>, <<"DC">>, <<"x">>, <<"#FF">>, <<>> }

Layouts ==
    { [sig |-> FIREFOX_LZ4_SIGNATURE, hdr |-> h, body |-> b] : h \in {Header6, Header12}, b \in Streams }
    \cup { [sig |-> <<>>, hdr |-> <<>>, body |-> b] : b \in PlainBodies }

Files ==
    { [exists |-> e, readable |-> r, out_writable |-> w,
       sig |-> l.sig, hdr |-> l.hdr, body |-> l.body] :
         e \in BOOLEAN, r \in BOOLEAN, w \in BOOLEAN, l \in Layouts }

Init ==
    /\ pc = "start"
    /\ file \in Files
    /\ compressed_data = <<>>
    /\ bookmark_data = JNull
    /\ output = <<>>
    /\ outOpened = FALSE
    /\ stdout = <<>>
    /\ stderr = <<>>
    /\ exitCode = <<>>

Next ==
    \/ CheckInput
    \/ DetectFormat
    \/ decompress_jsonlz4
    \/ load_json_file
    \/ OpenOutput
    \/ Convert

Spec == Init /\ [][Next]_vars

(***************************************************************************)
(* Properties of main and of the Loader, checked under Spec.               *)
(***************************************************************************)
SUCCESS_LINE == "Successfully converted bookmarks"

IsIn(x, seq) == \E i \in 1..Len(seq) : seq[i] = x

\* decompress_jsonlz4 has read the file
Decompressed ==
    /\ stdout # <<>>
    /\ stdout[1] = "Processing Firefox jsonlz4 bookmark backup"
    /\ pc # "decompress"

\* The messages of a failure before the tree is loaded
LOADER_MESSAGES ==
    { "Input file does not exist", "not a valid Firefox bookmark backup file or JSON file",
      "File reading error", "LZ4 decompression error", "JSON parsing error",
      "Error loading JSON file" }

\* C6: every failure is terminal: one error line, a non-zero exit status, no
\* stage after the failing one, never the success line; and a run that did
\* not fail writes no error line and exits with status 0.
C6_FailureIsTerminal ==
    /\ stderr # <<>> => exitCode = <<1>>
    /\ exitCode = <<1>> =>
          /\ Len(stderr) = 1
          /\ pc = "exited"
          /\ ~IsIn(SUCCESS_LINE, stdout)
          /\ stderr[1] \in LOADER_MESSAGES =>
                /\ ~outOpened
                /\ output = <<>>
                /\ ~IsIn("Converting bookmarks to HTML format...", stdout)
          /\ stderr[1] = "Input file does not exist" => stdout = <<>>
    /\ exitCode = <<0>> => stderr = <<>> /\ IsIn(SUCCESS_LINE, stdout)
    /\ pc = "exited" =>
          /\ exitCode # <<>>
          /\ ~ENABLED Next
          /\ ~file.exists \/ ~file.out_writable \/ bookmark_data = JNull => exitCode = <<1>>
          /\ exitCode = <<0>> <=>
                /\ outOpened
                /\ ~convert_bookmarks_to_html(<<>>, bookmark_data, 0).raised

\* C6 witness: a failure during rendering, after part of the output was written
C6_Witness ==
    /\ exitCode = <<1>>
    /\ stderr = <<"Conversion failed">>
    /\ outOpened
    /\ output # <<>>
    /\ bookmark_data = DocBadChild

\* C7: the output file is opened only after the tree was loaded; a backup
\* whose stream does not decompress ends in the decompression error, is not
\* tried as plain JSON, and leaves the output file unopened.
C7_OutputOpenedAfterLoad ==
    /\ outOpened => bookmark_data # JNull
    /\ bookmark_data = JNull => output = <<>>
    /\ (/\ pc = "exited"
        /\ file.exists /\ file.readable
        /\ file.sig = FIREFOX_LZ4_SIGNATURE
        /\ ~Lz4Decompress(compressed_data).ok) =>
          /\ stderr = <<"LZ4 decompression error">>
          /\ exitCode = <<1>>
          /\ stdout = <<"Processing Firefox jsonlz4 bookmark backup">>
          /\ ~outOpened

\* C7 witness: a backup with a corrupt stream has ended the run
C7_Witness ==
    /\ pc = "exited"
    /\ file.sig = FIREFOX_LZ4_SIGNATURE
    /\ file.body = <<"x", "D1">>
    /\ file.out_writable
    /\ stderr = <<"LZ4 decompression error">>
    /\ ~outOpened

\* C8 as stated: of a file laid out as signature, 12-byte header, compressed
\* stream, exactly the compressed stream is passed to the decompression.
C8_StreamAfterSignatureAndHeader ==
    (Decompressed /\ Len(file.hdr) = FIREFOX_LZ4_HEADER_SIZE) => compressed_data = file.body

\* C8 amended: the Loader skips the first 12 bytes of the file, the 6-byte
\* signature being part of them: of a file laid out as signature, 6 more
\* header bytes, compressed stream, exactly the compressed stream is passed
\* to the decompression; of a longer header the bytes from the 7th on are
\* passed with the stream.
C8_StreamAfterTwelveBytes ==
    Decompressed =>
        /\ Len(FIREFOX_LZ4_SIGNATURE) + Len(file.hdr) = FIREFOX_LZ4_HEADER_SIZE =>
              compressed_data = file.body
        /\ compressed_data =
              SubSeq(file.hdr, FIREFOX_LZ4_HEADER_SIZE - Len(FIREFOX_LZ4_SIGNATURE) + 1, Len(file.hdr))
              \o file.body

\* C8 witness: a backup with the 6 header bytes was decompressed and parsed
C8_Witness ==
    /\ Decompressed
    /\ file.hdr = Header6
    /\ file.body = <<"Z", "D3">>
    /\ compressed_data = <<"Z", "D3">>
    /\ bookmark_data = DocAnnotated

(***************************************************************************)
(* The Renderer: main from the place where the tree is loaded.             *)
(***************************************************************************)
\* A plain JSON input file that was read; its text names the loaded document.
LoadedFile ==
    [exists |-> TRUE, readable |-> TRUE, out_writable |-> TRUE,
     sig |-> <<>>, hdr |-> <<>>, body |-> <<"doc">>]

\* main at line 337 with the tree data loaded from a plain JSON file
Loaded(data) ==
    /\ pc = "convert"
    /\ file = LoadedFile
    /\ compressed_data = <<>>
    /\ bookmark_data = data
    /\ output = <<>>
    /\ outOpened = FALSE
    /\ stdout = <<"Processing JSON bookmark file">>
    /\ stderr = <<>>
    /\ exitCode = <<>>

NextConvert ==
    \/ OpenOutput
    \/ Convert

\* the run ended with the tree rendered
Rendered == pc = "exited" /\ exitCode = <<0>>

(***************************************************************************)
(* Trees by structure: every tree of at most MaxNodes nodes, each node     *)
(* with or without a uri, a separator or not, a leaf with an empty         *)
(* children list or none; the root with or without a title.  A tree is     *)
(* given by the depths of its nodes in depth-first order and by the kind   *)
(* of each node; the uri of the i-th node is "u" and the digit i.          *)
(***************************************************************************)
MaxNodes == 3

NodeKinds == [uri : BOOLEAN, sep : BOOLEAN, list : BOOLEAN]

\* the depths of n nodes in depth-first order: the root at 0, every other
\* node at most one deeper than the node before it
DepthSeqs(n) ==
    { d \in [1..n -> 0..(n - 1)] :
        d[1] = 0 /\ \A i \in 2..n : d[i] >= 1 /\ d[i] <= d[i - 1] + 1 }

\* the children of node i, in order
ChildrenOf(d, i) ==
    SelectSeq([j \in 1..Len(d) |-> j],
              LAMBDA j : /\ j > i
                         /\ d[j] = d[i] + 1
                         /\ \A m \in (i + 1)..j : d[m] > d[i])

\* a dict of the given keys: uri (<<>> for none), typeCode 3 or none,
\* children (<<list>> or <<>> for none)
MakeNode(uri, sep, children) ==
    JDict([k \in {"title"}
             \cup (IF uri = <<>> THEN {} ELSE {"uri"})
             \cup (IF sep THEN {"typeCode"} ELSE {})
             \cup (IF children = <<>> THEN {} ELSE {"children"}) |->
           CASE k = "title"    -> JStr(<<"t">>)
             [] k = "uri"      -> JStr(uri)
             [] k = "typeCode" -> JInt(FALSE, NatDigits(BOOKMARK_SEPARATOR_TYPE))
             [] k = "children" -> JList(children[1])])

RECURSIVE BuildNode(_, _, _)

\* node i of the tree of depths d and kinds l, with what is below it
BuildNode(d, l, i) ==
    The({ MakeNode(IF l[i].uri THEN <<"u", DigitChars[i + 1]>> ELSE <<>>,
                   l[i].sep,
                   IF kids = <<>> THEN (IF l[i].list THEN <<(<<>>)>> ELSE <<>>)
                   ELSE <<[c \in 1..Len(kids) |-> BuildNode(d, l, kids[c])]>>) :
            kids \in {ChildrenOf(d, i)} })

WithoutKey(d, key) == JDict([k \in DOMAIN d.v \ {key} |-> d.v[k]])

InitTree ==
    \E n \in 1..MaxNodes :
        \E d \in DepthSeqs(n), l \in [1..n -> NodeKinds], titled \in BOOLEAN :
            \E tree \in {BuildNode(d, l, 1)} :
                Loaded(IF titled THEN tree ELSE WithoutKey(tree, "title"))

SpecTree == InitTree /\ [][NextConvert]_vars

(***************************************************************************)
(* What the input tree holds, read off the tree alone.                     *)
(***************************************************************************)
HasChildrenList(n) == "children" \in DOMAIN n.v /\ n.v["children"].t = "list"

HasUri(n) == "uri" \in DOMAIN n.v /\ n.v["uri"].t # "null"

HasSeparatorType(n) ==
    /\ "typeCode" \in DOMAIN n.v
    /\ n.v["typeCode"].t = "int"
    /\ n.v["typeCode"].v = <<3>>
    /\ ~n.v["typeCode"].neg

RECURSIVE BookmarkNodes(_)
RECURSIVE BookmarkNodesIn(_)

\* Depth-first, children in their order: the nodes with a uri and no children
\* list, at n and below it, nothing of a separator child being visited
BookmarkNodes(n) ==
    IF HasChildrenList(n) THEN BookmarkNodesIn(n.v["children"].v)
    ELSE IF HasUri(n) THEN <<n>>
    ELSE <<>>

BookmarkNodesIn(forest) ==
    IF forest = <<>> THEN <<>>
    ELSE (IF HasSeparatorType(Head(forest)) THEN <<>> ELSE BookmarkNodes(Head(forest)))
         \o BookmarkNodesIn(Tail(forest))

RECURSIVE UriNodes(_)
RECURSIVE UriNodesIn(_)

\* Depth-first, children in their order: every node with a uri, at n and
\* below it, nothing of a separator child being visited
UriNodes(n) ==
    (IF HasUri(n) THEN <<n>> ELSE <<>>)
    \o (IF HasChildrenList(n) THEN UriNodesIn(n.v["children"].v) ELSE <<>>)

UriNodesIn(forest) ==
    IF forest = <<>> THEN <<>>
    ELSE (IF HasSeparatorType(Head(forest)) THEN <<>> ELSE UriNodes(Head(forest)))
         \o UriNodesIn(Tail(forest))

RECURSIVE Prune(_)
RECURSIVE PruneIn(_)

\* n without the separator children at any level (n itself is kept)
Prune(n) ==
    IF HasChildrenList(n)
    THEN JDict([k \in DOMAIN n.v |->
                  IF k = "children" THEN JList(PruneIn(n.v["children"].v)) ELSE n.v[k]])
    ELSE n

PruneIn(forest) ==
    IF forest = <<>> THEN <<>>
    ELSE (IF HasSeparatorType(Head(forest)) THEN <<>> ELSE <<Prune(Head(forest))>>)
         \o PruneIn(Tail(forest))

RECURSIVE RenderedItems(_, _)
RECURSIVE RenderedItemsIn(_, _)

\* Depth-first: the folders below the root and the bookmarks, each with its depth
RenderedItems(n, depth) ==
    IF HasChildrenList(n)
    THEN (IF depth = 0 THEN <<>> ELSE <<[kind |-> "folder", depth |-> depth]>>)
         \o RenderedItemsIn(n.v["children"].v, depth + 1)
    ELSE IF HasUri(n) THEN <<[kind |-> "bookmark", depth |-> depth]>>
    ELSE <<>>

RenderedItemsIn(forest, depth) ==
    IF forest = <<>> THEN <<>>
    ELSE (IF HasSeparatorType(Head(forest)) THEN <<>> ELSE RenderedItems(Head(forest), depth))
         \o RenderedItemsIn(Tail(forest), depth)

(***************************************************************************)
(* What the output file holds, read off its lines alone.                   *)
(***************************************************************************)
IsAnchorLine(l) == l.text[1] = Lit("<DT><A HREF=\"")

IsHeadingLine(l) == l.text[1] = Lit("<DT><H3")

IsDescriptionLine(l) == l.text[1] = Lit("<DD>")

IsOpenLine(l) == l.text = <<Lit("<DL><p>")>>

IsCloseLine(l) == l.text = <<Lit("</DL><p>")>>

\* the escaped uri of each anchor line, in the order of the lines
Anchors(out) ==
    LET lines == SelectSeq(out, IsAnchorLine)
    IN  [i \in 1..Len(lines) |-> lines[i].text[2].txt]

\* openings less closings among the first i lines
Nesting(out, i) ==
    Cardinality({ j \in 1..i : IsOpenLine(out[j]) }) - Cardinality({ j \in 1..i : IsCloseLine(out[j]) })

\* the heading and anchor lines as items, the depth being indent / INDENT_SIZE
Items(out) ==
    LET lines == SelectSeq(out, LAMBDA l : IsAnchorLine(l) \/ IsHeadingLine(l))
    IN  [i \in 1..Len(lines) |->
           [kind  |-> IF IsHeadingLine(lines[i]) THEN "folder" ELSE "bookmark",
            depth |-> lines[i].indent \div INDENT_SIZE]]

(***************************************************************************)
(* Properties of convert_bookmarks_to_html, checked under SpecTree.        *)
(***************************************************************************)
EscapedUris(nodes) == [i \in 1..Len(nodes) |-> html_escape(nodes[i].v["uri"])]

\* C1 as stated: every non-separator node with a uri, not below a separator,
\* is one anchor line of the output, the anchors in depth-first order.
C1_EveryUriNodeIsAnAnchor ==
    Rendered =>
        Anchors(output) =
            EscapedUris(IF HasSeparatorType(bookmark_data) THEN <<>> ELSE UriNodes(bookmark_data))

\* C1 amended: the anchor lines of the output are, in depth-first order and
\* one each, the nodes that have a uri and no children list and are the root
\* or reached from it through children lists without passing a separator
\* child; a node with a uri and a children list is a folder and has no anchor.
C1_AnchorsAreTheBookmarkNodes ==
    Rendered => Anchors(output) = EscapedUris(BookmarkNodes(bookmark_data))

\* C1 witness: two bookmarks under a root that has a uri itself
C1_Witness ==
    /\ Rendered
    /\ HasUri(bookmark_data) /\ HasChildrenList(bookmark_data)
    /\ Anchors(output) = << <<"u", "2">>, <<"u", "3">> >>

\* C2 as stated: a node of the separator type, the root included, and its
\* descendants contribute no line: the output is that of the tree without
\* them, and empty when the root is a separator.
C2_NoLineOfAnySeparator ==
    Rendered =>
        output = IF HasSeparatorType(bookmark_data) THEN <<>>
                 ELSE convert_bookmarks_to_html(<<>>, Prune(bookmark_data), 0).out

\* C2 amended: a child of the separator type, wherever it sits below the
\* root, and its descendants contribute no line: the output is that of the
\* tree without them.  The type of the node passed as root is not looked at.
C2_NoLineOfASeparatorChild ==
    Rendered => output = convert_bookmarks_to_html(<<>>, Prune(bookmark_data), 0).out

\* C2 witness: a separator child with a child of its own, next to output
C2_Witness ==
    /\ Rendered
    /\ HasChildrenList(bookmark_data)
    /\ \E i \in 1..Len(bookmark_data.v["children"].v) :
          LET c == bookmark_data.v["children"].v[i]
          IN  /\ HasSeparatorType(c)
              /\ HasChildrenList(c)
              /\ c.v["children"].v # <<>>
              /\ HasUri(c.v["children"].v[1])
    /\ Len(output) > 0

\* C3: the root is rendered as a folder whatever it holds: the output starts
\* with the document header carrying the root's escaped title, or "Bookmarks
\* Menu" without one, and ends with the closing list tag at indentation 0.
C3_RootIsAlwaysAFolder ==
    Rendered =>
        LET header == write_html_header(<<>>, Get(bookmark_data, "title", JStr(DEFAULT_TITLE)))
        IN  /\ Len(output) > Len(header)
            /\ SubSeq(output, 1, Len(header)) = header
            /\ output[Len(output)] = [indent |-> 0, text |-> <<Lit("</DL><p>")>>]

\* C9: a folder below the root is its heading line and its opening list tag
\* at 4 * depth spaces, its children one level deeper, and its closing list
\* tag at the same 4 * depth spaces; the list tags of the output are balanced
\* and nested, and every line is indented by 4 spaces per open list.
C9_FoldersNestAndBalance ==
    Rendered =>
        /\ \A i \in 1..Len(output) : Nesting(output, i) >= 0
        /\ Nesting(output, Len(output)) = 0
        /\ \A i \in 1..Len(output) :
              output[i].indent =
                  INDENT_SIZE * (IF IsCloseLine(output[i]) THEN Nesting(output, i)
                                 ELSE Nesting(output, i - 1))
        /\ \A i \in 1..Len(output) :
              IsHeadingLine(output[i]) =>
                  /\ output[i].indent > 0
                  /\ i < Len(output)
                  /\ IsOpenLine(output[i + 1])
                  /\ output[i + 1].indent = output[i].indent
                  /\ \E j \in (i + 2)..Len(output) :
                        /\ IsCloseLine(output[j])
                        /\ output[j].indent = output[i].indent
                        /\ Nesting(output, j) = Nesting(output, i)
                        /\ \A k \in (i + 1)..(j - 1) : Nesting(output, k) > Nesting(output, i)
        /\ Items(output) = RenderedItems(bookmark_data, 0)

\* C9 witness: a folder below the root with a bookmark in it
C9_Witness ==
    /\ Rendered
    /\ \E i \in 1..Len(output) :
          /\ IsHeadingLine(output[i])
          /\ i + 3 <= Len(output)
          /\ IsAnchorLine(output[i + 2])
          /\ output[i + 2].indent = 2 * INDENT_SIZE
          /\ IsCloseLine(output[i + 3])

(***************************************************************************)
(* Escaping.  The documents have one text, or null, as every title, uri    *)
(* and description value: the root, a folder in it, and a bookmark with a  *)
(* description in the folder.                                              *)
(***************************************************************************)
MaxTextLen == 3

Alphabet == {"&", "<", ">", "\"", "'", "a", ";"}

Texts == UNION { [1..n -> Alphabet] : n \in 0..MaxTextLen }

EscapeDoc(x) ==
    JDict([title    |-> x,
           children |-> JList(<<
               JDict([title    |-> x,
                      children |-> JList(<<
                          JDict([title |-> x,
                                 uri   |-> x,
                                 annos |-> JList(<<JDict([name  |-> JStr(DESCRIPTION_KEY),
                                                          value |-> x])>>)]) >>)]) >>)])

InitEscape == \E x \in {JNull} \cup { JStr(cs) : cs \in Texts } : Loaded(EscapeDoc(x))

SpecEscape == InitEscape /\ [][NextConvert]_vars

\* the entity that stands for a character, or the character
EntityOf(c) ==
    CASE c = "&"  -> <<"&", "a", "m", "p", ";">>
      [] c = "<"  -> <<"&", "l", "t", ";">>
      [] c = ">"  -> <<"&", "g", "t", ";">>
      [] c = "\"" -> <<"&", "q", "u", "o", "t", ";">>
      [] c = "'"  -> <<"&", "#", "x", "2", "7", ";">>
      [] OTHER    -> <<c>>

RECURSIVE EachCharOnce(_)

\* every character of cs replaced once, left to right
EachCharOnce(cs) ==
    IF cs = <<>> THEN <<>> ELSE EntityOf(Head(cs)) \o EachCharOnce(Tail(cs))

\* the escaped text of a str or of None
Escaped(x) == IF x.t = "str" THEN EachCharOnce(x.v) ELSE <<>>

StartsAt(cs, i, e) == i + Len(e) - 1 <= Len(cs) /\ SubSeq(cs, i, i + Len(e) - 1) = e

\* no raw < > " ' and every & the start of one of the five entities
IsEscapedText(cs) ==
    \A i \in 1..Len(cs) :
        /\ cs[i] \notin {"<", ">", "\"", "'"}
        /\ cs[i] = "&" => \E c \in {"&", "<", ">", "\"", "'"} : StartsAt(cs, i, EntityOf(c))

RECURSIVE PiecesOf(_)

\* the pieces of the lines of out, in order
PiecesOf(out) == IF out = <<>> THEN <<>> ELSE Head(out).text \o PiecesOf(Tail(out))

\* the interpolated texts of out, in order
Interpolated(out) ==
    LET pieces == SelectSeq(PiecesOf(out), LAMBDA p : "txt" \in DOMAIN p)
    IN  [i \in 1..Len(pieces) |-> pieces[i].txt]

\* C4: every title, uri and description value of the output is the
\* html_escape of its source text: each character replaced once by its
\* entity, so that no raw < > " ' is left and every & begins an entity; a
\* null or empty text gives the empty string.
C4_InterpolatedTextIsEscaped ==
    Rendered =>
        LET x     == bookmark_data.v["title"]
            texts == Interpolated(output)
        IN  /\ Len(texts) = IF x.t = "str" THEN 5 ELSE 2
            /\ \A i \in 1..Len(texts) :
                  /\ texts[i] = Escaped(x)
                  /\ IsEscapedText(texts[i])
            /\ ~Truthy(x) => \A i \in 1..Len(texts) : texts[i] = <<>>

\* C4 witness: a text with an ampersand between two angle brackets
C4_Witness ==
    /\ Rendered
    /\ bookmark_data.v["title"] = JStr(<<"<", "&", ">">>)
    /\ Interpolated(output)[5] =
           <<"&", "l", "t", ";", "&", "a", "m", "p", ";", "&", "g", "t", ";">>

(***************************************************************************)
(* Annotations.  The documents have a bookmark with an annotation list of  *)
(* up to MaxAnnos entries, with something else than a list, or with none,  *)
(* before a bookmark with one description, under the root or in a folder.  *)
(***************************************************************************)
MaxAnnos == 2

AnnoEntries ==
    { Description(<<"a">>),
      Description(<<"<">>),
      JDict([name |-> JStr(DESCRIPTION_KEY)]),
      JDict([name |-> JStr(<<"o">>), value |-> JStr(<<"a">>)]),
      JDict([value |-> JStr(<<"a">>)]),
      JStr(<<"a">>) }

\* <<>> for no annos key, <<value>> for the key with the value
AnnoValues ==
    {<<>>, <<JNull>>, <<JStr(<<"a">>)>>}
    \cup { <<JList(l)>> : l \in UNION { [1..n -> AnnoEntries] : n \in 0..MaxAnnos } }

AnnotatedBookmark(annos) ==
    JDict([k \in {"title", "uri"} \cup (IF annos = <<>> THEN {} ELSE {"annos"}) |->
           CASE k = "title" -> JStr(<<"t">>)
             [] k = "uri"   -> JStr(<<"u">>)
             [] k = "annos" -> annos[1]])

AnnosDoc(annos, nested) ==
    LET items == << AnnotatedBookmark(annos),
                    JDict([title |-> JStr(<<"t">>), uri |-> JStr(<<"v">>),
                           annos |-> JList(<<Description(<<"z">>)>>)]) >>
    IN  Folder(<<"r">>, IF nested THEN <<Folder(<<"f">>, items)>> ELSE items)

InitAnnos == \E annos \in AnnoValues, nested \in BOOLEAN : Loaded(AnnosDoc(annos, nested))

SpecAnnos == InitAnnos /\ [][NextConvert]_vars

RECURSIVE DescriptionsOf(_)

\* the escaped values of the entries with the description key, in order
DescriptionsOf(entries) ==
    IF entries = <<>> THEN <<>>
    ELSE (IF /\ Head(entries).t = "dict"
             /\ "name" \in DOMAIN Head(entries).v
             /\ Head(entries).v["name"] = JStr(DESCRIPTION_KEY)
          THEN <<[kind |-> "description",
                  text |-> IF "value" \in DOMAIN Head(entries).v
                           THEN Escaped(Head(entries).v["value"]) ELSE <<>>]>>
          ELSE <<>>)
         \o DescriptionsOf(Tail(entries))

RECURSIVE AnchorsWithDescriptions(_)

\* each bookmark's anchor and then its descriptions
AnchorsWithDescriptions(nodes) ==
    IF nodes = <<>> THEN <<>>
    ELSE <<[kind |-> "anchor", text |-> Escaped(Head(nodes).v["uri"])]>>
         \o (IF "annos" \in DOMAIN Head(nodes).v /\ Head(nodes).v["annos"].t = "list"
             THEN DescriptionsOf(Head(nodes).v["annos"].v) ELSE <<>>)
         \o AnchorsWithDescriptions(Tail(nodes))

\* the anchor and description lines of out, in order
AnchorAndDescriptionLines(out) ==
    LET lines == SelectSeq(out, LAMBDA l : IsAnchorLine(l) \/ IsDescriptionLine(l))
    IN  [i \in 1..Len(lines) |->
           [kind |-> IF IsAnchorLine(lines[i]) THEN "anchor" ELSE "description",
            text |-> lines[i].text[2].txt]]

\* C10: each anchor line is followed at once by one <DD> line for each entry
\* of the bookmark's annotation list that has the description key, in the
\* order of the list, at the bookmark's indentation, with the escaped value;
\* other entries, and a bookmark without an annotation list, give no line.
C10_DescriptionsFollowTheAnchor ==
    Rendered =>
        /\ AnchorAndDescriptionLines(output) = AnchorsWithDescriptions(BookmarkNodes(bookmark_data))
        /\ \A i \in 1..Len(output) :
              IsDescriptionLine(output[i]) =>
                  /\ i > 1
                  /\ IsAnchorLine(output[i - 1]) \/ IsDescriptionLine(output[i - 1])
                  /\ output[i].indent = output[i - 1].indent

\* C10 witness: two descriptions after one anchor, between them in the
\* annotation list an entry of another key
C10_Witness ==
    /\ Rendered
    /\ \E i \in 1..Len(output) :
          /\ i + 3 <= Len(output)
          /\ IsAnchorLine(output[i])
          /\ output[i + 1].text = <<Lit("<DD>"), Txt(<<"&", "l", "t", ";">>)>>
          /\ output[i + 2].text = <<Lit("<DD>"), Txt(<<"a">>)>>
          /\ IsAnchorLine(output[i + 3])

(***************************************************************************)
(* Dates.  The documents have a folder and a bookmark under the root, both *)
(* with the same dateAdded and lastModified, each absent or one of the     *)
(* values below.                                                           *)
(***************************************************************************)
DateValues ==
    { JNull,
      JInt(FALSE, <<0>>),
      JInt(FALSE, <<1>>),
      JInt(FALSE, <<9, 9, 9, 9, 9, 9>>),
      JInt(FALSE, <<1, 0, 0, 0, 0, 0, 0>>),
      JInt(FALSE, <<1, 7, 0, 0, 0, 0, 0, 0, 0, 0, 0, 0, 0, 0, 0, 0>>),
      JInt(FALSE, <<1, 7, 0, 0, 0, 0, 0, 0, 0, 0, 9, 9, 9, 9, 9, 9>>),
      JInt(FALSE, <<1, 7, 1, 7, 9, 8, 6, 9, 1, 8, 4, 9, 9, 9, 9, 9, 9>>),
      JInt(FALSE, <<9, 9, 9, 9, 9, 9, 9, 9, 9, 9, 9, 9, 9, 9, 9, 9, 9>>),
      JInt(TRUE, <<1>>),
      JInt(TRUE, <<1, 0, 0, 0, 0, 0, 1>>),
      JStr(<<>>),
      JStr(<<"a", "b", "c">>),
      JStr(<<"1", "2", "3", "4", "5", "6", "7", "8">>),
      JBool(FALSE),
      JBool(TRUE),
      JList(<<>>),
      JList(<<JNull, JNull>>) }

\* <<>> for no key, <<value>> for the key with the value
DateChoices == {<<>>} \cup { <<v>> : v \in DateValues }

Dated(node, added, modified) ==
    JDict([k \in DOMAIN node.v
                 \cup (IF added = <<>> THEN {} ELSE {"dateAdded"})
                 \cup (IF modified = <<>> THEN {} ELSE {"lastModified"}) |->
           CASE k = "dateAdded"    -> added[1]
             [] k = "lastModified" -> modified[1]
             [] OTHER              -> node.v[k]])

DateDoc(added, modified) ==
    Folder(<<"r">>, << Dated(Folder(<<"f">>, <<>>), added, modified),
                       Dated(Bookmark(<<"b">>, <<"u">>), added, modified) >>)

InitDate == \E added \in DateChoices, modified \in DateChoices : Loaded(DateDoc(added, modified))

SpecDate == InitDate /\ [][NextConvert]_vars

\* the floor of n / 1000000 for the int n, in exact integer arithmetic
ExactFloor(n) ==
    The({ IF ~n.neg THEN [neg |-> FALSE, v |-> qr.q]
          ELSE IF qr.r = 0 THEN [neg |-> qr.q # <<0>>, v |-> qr.q]
          ELSE [neg |-> TRUE, v |-> AddOne(qr.q)] :
            qr \in {DivModSmall(n.v, MICROSECONDS)} })

\* the value of the attribute that opens with opening, <<>> without it
AttributeOf(line, opening) ==
    LET at == { j \in 1..Len(line.text) : line.text[j] = Lit(opening) }
    IN  IF at = {} THEN <<>> ELSE <<line.text[(CHOOSE j \in at : TRUE) + 1].txt>>

IsDigits(cs) == cs # <<>> /\ \A i \in 1..Len(cs) : IsDigitChar(cs[i])

\* the attribute the key's value is to give: <<seconds>> for a non-zero
\* int, <<>> for a value that is absent, falsy or not numeric
DateOf(node, key) ==
    IF key \in DOMAIN node.v /\ node.v[key].t = "int" /\ node.v[key].v # <<0>>
    THEN <<StrOfInt(ExactFloor(node.v[key]))>>
    ELSE <<>>

\* neither a non-zero int nor absent, falsy or non-numeric: True and a str of digits
IsOtherNumeric(node, key) ==
    /\ key \in DOMAIN node.v
    /\ \/ node.v[key] = JBool(TRUE)
       \/ node.v[key].t = "str" /\ IsDigits(node.v[key].v)

\* C5: the heading of a rendered folder and the anchor of a rendered bookmark
\* carry ADD_DATE (LAST_MODIFIED) with the integer floor of dateAdded
\* (lastModified) / 1000000 when that value is a non-zero int, and no such
\* attribute when the value is absent, falsy or not numeric; no error is raised.
C5_DateIsTheFloorOfTheSeconds ==
    pc = "exited" =>
        /\ exitCode = <<0>>
        /\ Len(output) = 13
        /\ \A i \in {9, 12} :
              LET node == bookmark_data.v["children"].v[IF i = 9 THEN 1 ELSE 2]
              IN  /\ ~IsOtherNumeric(node, "dateAdded") =>
                        AttributeOf(output[i], " ADD_DATE=\"") = DateOf(node, "dateAdded")
                  /\ ~IsOtherNumeric(node, "lastModified") =>
                        AttributeOf(output[i], " LAST_MODIFIED=\"") = DateOf(node, "lastModified")

====
